---- MODULE Spec2Model ----
(***************************************************************************)
(* Satisfiability validation of a federated schema composition             *)
(* (composition-js/src/validate.ts).                                       *)
(*                                                                         *)
(* A merged ("super") graph is walked depth first; every merged path is    *)
(* mirrored by a list of candidate paths of the services graph.  The graph *)
(* and path primitives (@apollo/query-graphs) and the schema model         *)
(* (@apollo/core) are not part of validate.ts: they are modelled from      *)
(* their description in the specification (sections 3, 4.1, 4.3 and 6).    *)
(***************************************************************************)
EXTENDS Integers, Sequences, FiniteSets, TLC

VARIABLES
  supergraph,   \* the merged graph handed to the entry point
  subgraphs,    \* the services graph handed to the entry point
  stack,        \* ValidationTaversal.stack: sequence of ValidationState, top last
                \* (in the condition validator: the nested validateConditions
                \* calls in progress, the running one last)
  state,        \* the ValidationState handleState is working on
  edges,        \* the edges of state.supergraphPath.nextEdges() still to iterate
  pc,           \* position in the running entry point
  result,       \* what the entry point gave its caller
  input,        \* the argument of the entry point when it is not the graph
                \* pair: the merged path of computeSubgraphPaths or of the
                \* witness builder, the input type of generateWitnessValue, the
                \* arguments of validateConditions; in a traversal, undefined,
                \* then the outcome of the first call when a second one runs
  raised,       \* every ValidationError thrown by a validateTransition call so far
  expanded      \* every ValidationState handed to handleState so far

vars ==
  <<supergraph, subgraphs, stack, state, edges, pc, result, input, raised, expanded>>

-----------------------------------------------------------------------------
(* Sequence helpers                                                        *)

RECURSIVE Concat(_)
\* The concatenation of a sequence of sequences (the flattening of flatMap).
Concat(ss) == IF ss = <<>> THEN <<>> ELSE Head(ss) \o Concat(Tail(ss))

Range(s) == {s[i] : i \in 1..Len(s)}

-----------------------------------------------------------------------------
(* Schema and graph model (sections 3 and 6 of the specification)          *)

\* The absent value: undefined.
Undefined == [kind |-> "undefined"]

\* isLeafType: scalars and enums.
LeafTypes == {"Int"}
isLeafType(type) == type \in LeafTypes

\* federatedGraphRootTypeName(kind): the type name of the services-graph root.
federatedGraphRootTypeName(kind) == "[" \o kind \o "]"

\* A vertex is a (source schema, type) pair.
Vertex(src, type) == [src |-> src, type |-> type]

\* A root vertex also carries its root kind.
RootVertex(src, type, kind) == [src |-> src, type |-> type, rootKind |-> kind]

\* The no-op transition.
freeTransition == [kind |-> "FreeTransition", name |-> ""]

\* An edge: head, tail, transition and optional conditions (<<>>: none).
Edge(head, tail, kind, name, conditions) ==
  [head |-> head, tail |-> tail,
   transition |-> [kind |-> kind, name |-> name],
   conditions |-> conditions]

\* `!edge.conditions`: the edge carries no conditions.
hasConditions(edge) == edge.conditions # <<>>

\* Graph.root(kind): the root vertex of that kind, or undefined.
root(graph, kind) ==
  IF kind \in DOMAIN graph.roots THEN graph.roots[kind] ELSE Undefined

\* Graph.outEdges(vertex), in the graph's edge order.
outEdges(graph, vertex) == SelectSeq(graph.edges, LAMBDA e : e.head = vertex)

-----------------------------------------------------------------------------
(* Path (GraphPath / RootPath)                                             *)

\* GraphPath.fromGraphRoot(graph, kind) and GraphPath.create(graph, vertex):
\* the path of zero edges at a vertex.
GraphPathCreate(vertex) == [root |-> vertex, steps |-> <<>>]

fromGraphRoot(graph, kind) == GraphPathCreate(root(graph, kind))

\* GraphPath.add(transition, edge): a new path, one step longer.
add(path, transition, edge) ==
  [path EXCEPT !.steps = Append(@, [edge |-> edge, trigger |-> transition])]

size(path) == Len(path.steps)

tail(path) ==
  IF path.steps = <<>> THEN path.root ELSE path.steps[Len(path.steps)].edge.tail

\* GraphPath.elements(): the edges of the path, in order.
elements(path) == [i \in 1..Len(path.steps) |-> path.steps[i].edge]

\* GraphPath.nextEdges(): the outgoing edges of the tail vertex.
nextEdges(graph, path) == outEdges(graph, tail(path))

\* GraphPath.isTerminal(): the tail vertex has no outgoing edge.
isTerminal(graph, path) == nextEdges(graph, path) = <<>>

\* The vertices of the path since its last free transition (a free step
\* resets the visited set), the tail last.
visitedSinceReset(path) ==
  LET n == Len(path.steps)
      frees == {i \in 1..n : path.steps[i].trigger.kind = "FreeTransition"}
      from == IF frees = {} THEN 0
              ELSE CHOOSE i \in frees : \A j \in frees : j <= i
  IN  [k \in 1..(n - from + 1) |->
         IF from + k - 1 = 0 THEN path.root
         ELSE path.steps[from + k - 1].edge.tail]

\* GraphPath.hasJustCycled(): the tail vertex was already visited.
hasJustCycled(path) ==
  LET vs == visitedSinceReset(path)
  IN  \E i \in 1..(Len(vs) - 1) : vs[i] = vs[Len(vs)]

\* GraphPath.hasAnyEdgeConditions()
hasAnyEdgeConditions(path) ==
  \E i \in 1..Len(path.steps) : hasConditions(path.steps[i].edge)

-----------------------------------------------------------------------------
(* Condition validator (ConditionValidationState, validateConditions)      *)

\* The failure marker of validateConditions, and its success (a non-value).
Null == [kind |-> "null"]

\* new ConditionValidationState(selection, subgraphPaths)
ConditionValidationState(selection, subgraphPaths) ==
  [selection |-> selection, subgraphPaths |-> subgraphPaths]

RECURSIVE validateConditions(_, _, _, _)
RECURSIVE validateConditionsLoop(_, _, _)
RECURSIVE advanceSimultaneousPathsWithOperation(_, _, _, _)
RECURSIVE advanceOpPath(_, _, _, _)

\* One path of a simultaneous path-set advanced by a field operation: one
\* option per outgoing edge that collects the field, is not excluded and whose
\* own conditions validate with the edge added to the excluded edges.
advanceOpPath(graph, path, element, excludedEdges) ==
  LET out == outEdges(graph, tail(path))
      usable(e) ==
        /\ e.transition.kind = "FieldCollection"
        /\ e.transition.name = element
        /\ e \notin excludedEdges
        /\ \/ ~hasConditions(e)
           \/ validateConditions(graph, e.conditions, GraphPathCreate(tail(path)),
                                 excludedEdges \cup {e}) # Null
  IN  Concat([i \in 1..Len(out) |->
                IF usable(out[i]) THEN <<add(path, out[i].transition, out[i])>>
                ELSE <<>>])

\* advanceSimultaneousPathsWithOperation: the path-sets obtained by advancing
\* every path of the set; none when one of its paths cannot advance.
advanceSimultaneousPathsWithOperation(graph, paths, element, excludedEdges) ==
  IF paths = <<>> THEN << <<>> >>
  ELSE LET first == advanceOpPath(graph, Head(paths), element, excludedEdges)
           rest == advanceSimultaneousPathsWithOperation(
                     graph, Tail(paths), element, excludedEdges)
       IN  Concat([i \in 1..Len(first) |->
                     [j \in 1..Len(rest) |-> <<first[i]>> \o rest[j]]])

\* ConditionValidationState.validateCurrentSelection
validateCurrentSelection(graph, this, excludedEdges) ==
  LET newPaths == Concat([i \in 1..Len(this.subgraphPaths) |->
                     advanceSimultaneousPathsWithOperation(
                       graph, this.subgraphPaths[i], this.selection.element,
                       excludedEdges)])
  IN  IF Len(newPaths) = 0 THEN Null
      ELSE [kind |-> "states",
            states |-> [i \in 1..Len(this.selection.selectionSet) |->
                          ConditionValidationState(
                            this.selection.selectionSet[i], newPaths)]]

\* The while loop of validateConditions over its local stack (top last).
validateConditionsLoop(graph, cstack, excludedEdges) ==
  IF Len(cstack) = 0 THEN Undefined
  ELSE LET top == cstack[Len(cstack)]
           newStates == validateCurrentSelection(graph, top, excludedEdges)
       IN  IF newStates = Null THEN Null
           ELSE validateConditionsLoop(
                  graph, SubSeq(cstack, 1, Len(cstack) - 1) \o newStates.states,
                  excludedEdges)

\* validateConditions(supergraphSchema, conditions, initialPath, excludedEdges)
validateConditions(graph, conditions, initialPath, excludedEdges) ==
  validateConditionsLoop(
    graph,
    [i \in 1..Len(conditions) |->
       ConditionValidationState(conditions[i], << <<initialPath>> >>)],
    excludedEdges)

\* A selection of a condition: a field and its sub-selections (<<>>: none).
Selection(element, selectionSet) ==
  [element |-> element, selectionSet |-> selectionSet]

-----------------------------------------------------------------------------
(* advancePathWithTransition                                               *)

\* The candidate paths obtained by advancing `path` by `transition` toward
\* `targetType`: one per outgoing edge with that transition and that tail type
\* whose conditions (if any) validate from the path's tail vertex with no
\* excluded edge.
advancePathWithTransition(graph, path, transition, targetType) ==
  LET out == outEdges(graph, tail(path))
      matches(e) ==
        /\ e.transition = transition
        /\ e.tail.type = targetType
        /\ \/ ~hasConditions(e)
           \/ validateConditions(graph, e.conditions,
                                 GraphPathCreate(tail(path)), {}) # Null
  IN  Concat([i \in 1..Len(out) |->
                IF matches(out[i]) THEN <<add(path, transition, out[i])>>
                ELSE <<>>])

-----------------------------------------------------------------------------
(* Witness builder                                                         *)

\* Input types of the schema model.
ScalarType(name) == [kind |-> "ScalarType", name |-> name]
EnumType(values) == [kind |-> "EnumType", values |-> values]
ListType(ofType) == [kind |-> "ListType", ofType |-> ofType]
NonNullType(ofType) == [kind |-> "NonNullType", ofType |-> ofType]
InputObjectType(fields) == [kind |-> "InputObjectType", fields |-> fields]
InputField(name, type, defaultValue) ==
  [name |-> name, type |-> type, defaultValue |-> defaultValue]

\* isNullableType: every type but a non-null wrapper.
isNullableType(type) == type.kind # "NonNullType"

\* A JavaScript value, by its type and its literal text.
Value(t, v) == [t |-> t, v |-> v]

\* JavaScript truthiness of a default value (undefined, 0, false and the empty
\* string are falsy).
Truthy(value) ==
  /\ value # Undefined
  /\ value \notin {Value("number", "0"), Value("boolean", "false"),
                   Value("string", "")}

RECURSIVE generateWitnessValue(_)
generateWitnessValue(type) ==
  CASE type.kind = "ScalarType" ->
         CASE type.name = "Int" -> Value("number", "0")
           [] type.name = "Float" -> Value("number", "3.14")
           [] type.name = "Boolean" -> Value("boolean", "true")
           [] type.name = "String" -> Value("string", "A string value")
           [] type.name = "ID" -> Value("string", "<any id>")
           [] OTHER -> Value("string", "<some value>")
    [] type.kind = "EnumType" -> Value("enum", type.values[1])
    [] type.kind = "InputObjectType" ->
         LET kept == SelectSeq(type.fields,
                       LAMBDA f : ~(Truthy(f.defaultValue) \/ isNullableType(f.type)))
         IN  [t |-> "object",
              entries |-> [i \in 1..Len(kept) |->
                             [name |-> kept[i].name,
                              value |-> generateWitnessValue(kept[i].type)]]]
    [] type.kind = "ListType" -> Value("list", "[]")
    [] type.kind = "NonNullType" -> generateWitnessValue(type.ofType)

\* The declared arguments of the fields of the merged schema
\* (FieldDefinition.arguments()).
arguments(definition) ==
  IF definition = "t"
  THEN <<[name |-> "id", type |-> NonNullType(ScalarType("ID"))]>>
  ELSE <<>>

buildWitnessField(definition) ==
  LET args == arguments(definition)
  IN  [definition |-> definition,
       args |-> [i \in 1..Len(args) |->
                   [name |-> args[i].name,
                    value |-> generateWitnessValue(args[i].type)]]]

\* new SelectionSet(type), with the selections added to it.
SelectionSet(type, selections) ==
  [kind |-> "SelectionSet", type |-> type, selections |-> selections]

RECURSIVE buildWitnessNextStepKeyNests(_, _)
\* Mutant of buildWitnessNextStep: the switch falls through, so a
\* FreeTransition or KeyResolution edge wraps the inner selection in a
\* selection set of its own.
buildWitnessNextStepKeyNests(es, index) ==
  IF index >= Len(es)
  THEN LET lastType == es[Len(es)].tail.type
       IN  IF isLeafType(lastType) THEN Undefined
           ELSE SelectionSet(lastType, <<>>)
  ELSE LET edge == es[index + 1]
           subSelection == buildWitnessNextStepKeyNests(es, index + 1)
       IN  CASE edge.transition.kind = "DownCast" ->
                  SelectionSet(edge.head.type,
                    <<[kind |-> "FragmentSelection",
                       sourceType |-> edge.head.type,
                       typeCondition |-> edge.transition.name,
                       selectionSet |-> subSelection]>>)
             [] OTHER ->
                  SelectionSet(edge.head.type,
                    <<[kind |-> "FieldSelection",
                       field |-> buildWitnessField(edge.transition.name),
                       selectionSet |-> subSelection]>>)

RECURSIVE buildWitnessNextStepFirstType(_, _)
\* Mutant of buildWitnessNextStep: the end of the path looks at the type of
\* the last edge's head instead of its tail.
buildWitnessNextStepFirstType(es, index) ==
  IF index >= Len(es)
  THEN LET lastType == es[Len(es)].head.type
       IN  IF isLeafType(lastType) THEN Undefined
           ELSE SelectionSet(lastType, <<>>)
  ELSE LET edge == es[index + 1]
           subSelection == buildWitnessNextStepFirstType(es, index + 1)
       IN  CASE edge.transition.kind = "DownCast" ->
                  SelectionSet(edge.head.type,
                    <<[kind |-> "FragmentSelection",
                       sourceType |-> edge.head.type,
                       typeCondition |-> edge.transition.name,
                       selectionSet |-> subSelection]>>)
             [] edge.transition.kind = "FieldCollection" ->
                  SelectionSet(edge.head.type,
                    <<[kind |-> "FieldSelection",
                       field |-> buildWitnessField(edge.transition.name),
                       selectionSet |-> subSelection]>>)
             [] edge.transition.kind \in {"FreeTransition", "KeyResolution"} ->
                  subSelection

RECURSIVE buildWitnessNextStep(_, _)
\* `index` counts from 0, as in the source; the source type of a DownCast
\* transition is the type of the edge's head.
buildWitnessNextStep(es, index) ==
  IF index >= Len(es)
  THEN LET lastType == es[Len(es)].tail.type
       IN  IF isLeafType(lastType) THEN Undefined
           ELSE SelectionSet(lastType, <<>>)
  ELSE LET edge == es[index + 1]
           subSelection == buildWitnessNextStep(es, index + 1)
       IN  CASE edge.transition.kind = "DownCast" ->
                  SelectionSet(edge.head.type,
                    <<[kind |-> "FragmentSelection",
                       sourceType |-> edge.head.type,
                       typeCondition |-> edge.transition.name,
                       selectionSet |-> subSelection]>>)
             [] edge.transition.kind = "FieldCollection" ->
                  SelectionSet(edge.head.type,
                    <<[kind |-> "FieldSelection",
                       field |-> buildWitnessField(edge.transition.name),
                       selectionSet |-> subSelection]>>)
             [] edge.transition.kind \in {"FreeTransition", "KeyResolution"} ->
                  subSelection

\* The outcome of an assertion that failed: an exception that is not a
\* ValidationError.
AssertionFailure == [kind |-> "assert"]

\* buildWitnessOperation(witness); the root kind is that of the path's root.
buildWitnessOperation(witness) ==
  IF ~(size(witness) > 0) THEN AssertionFailure
  ELSE [kind |-> "Operation",
        rootKind |-> witness.root.rootKind,
        selectionSet |-> buildWitnessNextStep(elements(witness), 0)]

\* validationError(unsatisfiablePath, subgraphsPaths)
validationError(unsatisfiablePath, subgraphsPaths) ==
  LET w == buildWitnessOperation(unsatisfiablePath)
  IN  IF w = AssertionFailure THEN AssertionFailure
      ELSE [kind |-> "ValidationError",
            supergraphUnsatisfiablePath |-> unsatisfiablePath,
            subgraphsPaths |-> subgraphsPaths,
            witness |-> w]

-----------------------------------------------------------------------------
(* ValidationState                                                         *)

\* The constructor: the state, or the assertion failure when some candidate's
\* tail type name differs from the merged path's.
ValidationState(supergraphPath, subgraphPaths) ==
  IF \A i \in 1..Len(subgraphPaths) :
       tail(subgraphPaths[i]).type = tail(supergraphPath).type
  THEN [kind |-> "ValidationState",
        supergraphPath |-> supergraphPath,
        subgraphPaths |-> subgraphPaths]
  ELSE AssertionFailure

\* Mutant of initialSubgraphPaths: the two assertions on the services root are
\* missing; a kind without a services root has no candidate.
initialSubgraphPathsNoAssert(kind, services) ==
  LET r == root(services, kind)
  IN  IF r = Undefined THEN [kind |-> "paths", paths |-> <<>>]
      ELSE LET initialState == fromGraphRoot(services, kind)
               out == outEdges(services, r)
           IN  [kind |-> "paths",
                paths |-> [i \in 1..Len(out) |->
                             add(initialState, freeTransition, out[i])]]

\* initialSubgraphPaths(kind, subgraphs)
initialSubgraphPaths(kind, services) ==
  LET r == root(services, kind)
  IN  IF r = Undefined THEN AssertionFailure
      ELSE IF r.type # federatedGraphRootTypeName(kind) THEN AssertionFailure
      ELSE LET initialState == fromGraphRoot(services, kind)
               out == outEdges(services, r)
           IN  [kind |-> "paths",
                paths |-> [i \in 1..Len(out) |->
                             add(initialState, freeTransition, out[i])]]

\* ValidationState.initial(supergraph, kind, subgraphs)
initial(merged, kind, services) ==
  LET paths == initialSubgraphPaths(kind, services)
  IN  IF paths = AssertionFailure THEN AssertionFailure
      ELSE ValidationState(fromGraphRoot(merged, kind), paths.paths)

\* Mutant of validateTransition: the check for an empty candidate list is
\* missing.
validateTransitionNoEmptyCheck(services, this, supergraphEdge) ==
  IF hasConditions(supergraphEdge) THEN AssertionFailure
  ELSE ValidationState(
         add(this.supergraphPath, supergraphEdge.transition, supergraphEdge),
         Concat([i \in 1..Len(this.subgraphPaths) |->
                   advancePathWithTransition(
                     services, this.subgraphPaths[i], supergraphEdge.transition,
                     supergraphEdge.tail.type)]))

\* Mutant of validateTransition: the error carries the candidates after the
\* step (none) instead of those before it.
validateTransitionPostStep(services, this, supergraphEdge) ==
  IF hasConditions(supergraphEdge) THEN AssertionFailure
  ELSE LET newSubgraphPaths ==
             Concat([i \in 1..Len(this.subgraphPaths) |->
                       advancePathWithTransition(
                         services, this.subgraphPaths[i],
                         supergraphEdge.transition, supergraphEdge.tail.type)])
           newPath == add(this.supergraphPath, supergraphEdge.transition,
                          supergraphEdge)
       IN  IF Len(newSubgraphPaths) = 0
           THEN validationError(newPath, newSubgraphPaths)
           ELSE ValidationState(newPath, newSubgraphPaths)

\* Mutant of validateTransition: the assertion on the merged edge's conditions
\* comes last, after the candidates were advanced and the empty list was
\* checked.
validateTransitionAssertLast(services, this, supergraphEdge) ==
  LET transition == supergraphEdge.transition
      targetType == supergraphEdge.tail.type
      newSubgraphPaths ==
        Concat([i \in 1..Len(this.subgraphPaths) |->
                  advancePathWithTransition(
                    services, this.subgraphPaths[i], transition, targetType)])
      newPath == add(this.supergraphPath, transition, supergraphEdge)
  IN  IF Len(newSubgraphPaths) = 0
      THEN validationError(newPath, this.subgraphPaths)
      ELSE IF hasConditions(supergraphEdge) THEN AssertionFailure
      ELSE ValidationState(newPath, newSubgraphPaths)

\* Mutant of validateTransition: the advanced paths are gathered from the last
\* candidate to the first.
validateTransitionReversed(services, this, supergraphEdge) ==
  IF hasConditions(supergraphEdge) THEN AssertionFailure
  ELSE LET transition == supergraphEdge.transition
           targetType == supergraphEdge.tail.type
           n == Len(this.subgraphPaths)
           newSubgraphPaths ==
             Concat([i \in 1..n |->
                       advancePathWithTransition(
                         services, this.subgraphPaths[n + 1 - i], transition,
                         targetType)])
           newPath == add(this.supergraphPath, transition, supergraphEdge)
       IN  IF Len(newSubgraphPaths) = 0
           THEN validationError(newPath, this.subgraphPaths)
           ELSE ValidationState(newPath, newSubgraphPaths)

\* Mutant of validateTransition: the error names the merged path before the
\* step, not the path extended by the edge.
validateTransitionOldPath(services, this, supergraphEdge) ==
  IF hasConditions(supergraphEdge) THEN AssertionFailure
  ELSE LET transition == supergraphEdge.transition
           targetType == supergraphEdge.tail.type
           newSubgraphPaths ==
             Concat([i \in 1..Len(this.subgraphPaths) |->
                       advancePathWithTransition(
                         services, this.subgraphPaths[i], transition, targetType)])
           newPath == add(this.supergraphPath, transition, supergraphEdge)
       IN  IF Len(newSubgraphPaths) = 0
           THEN validationError(this.supergraphPath, this.subgraphPaths)
           ELSE ValidationState(newPath, newSubgraphPaths)

\* ValidationState.validateTransition(supergraphSchema, supergraphEdge): the
\* new state, the ValidationError thrown, or an assertion failure.
validateTransition(services, this, supergraphEdge) ==
  IF hasConditions(supergraphEdge) THEN AssertionFailure
  ELSE LET transition == supergraphEdge.transition
           targetType == supergraphEdge.tail.type
           newSubgraphPaths ==
             Concat([i \in 1..Len(this.subgraphPaths) |->
                       advancePathWithTransition(
                         services, this.subgraphPaths[i], transition, targetType)])
           newPath == add(this.supergraphPath, transition, supergraphEdge)
       IN  IF Len(newSubgraphPaths) = 0
           THEN validationError(newPath, this.subgraphPaths)
           ELSE ValidationState(newPath, newSubgraphPaths)

\* ValidationState.hasCycled()
hasCycled(this) ==
  \E i \in 1..Len(this.subgraphPaths) : hasJustCycled(this.subgraphPaths[i])

-----------------------------------------------------------------------------
(* Inputs: the graph pairs the entry points are run on                     *)

Graph(rootKinds, roots, es) == [rootKinds |-> rootKinds, roots |-> roots, edges |-> es]

\* Vertices of the merged graph and of the services graph.
SuperRoot(kind) ==
  RootVertex("super", IF kind = "query" THEN "Query" ELSE "Mutation", kind)
Super(type) == Vertex("super", type)
FederatedRoot(kind) == RootVertex("federated", federatedGraphRootTypeName(kind), kind)

Field(head, name, tailv) == Edge(head, tailv, "FieldCollection", name, <<>>)
Requires(head, name, tailv, conditions) ==
  Edge(head, tailv, "FieldCollection", name, conditions)
Enter(kind, tailv) == Edge(FederatedRoot(kind), tailv, "FreeTransition", "", <<>>)

\* A recursive type: type Query { t(id: ID!): T }  type T { a: T  b: Int }
MergedRecursive ==
  Graph(<<"query">>, [k \in {"query"} |-> SuperRoot(k)],
        << Field(SuperRoot("query"), "t", Super("T")),
           Field(Super("T"), "a", Super("T")),
           Field(Super("T"), "b", Super("Int")) >>)

\* The edges a services graph for MergedRecursive may hold, in graph order;
\* service S2 resolves T.b from T.x (a requirement).
PoolRecursive ==
  << Field(Vertex("S1", "Query"), "t", Vertex("S1", "T")),
     Field(Vertex("S1", "T"), "a", Vertex("S1", "T")),
     Field(Vertex("S1", "T"), "b", Vertex("S1", "Int")),
     Field(Vertex("S2", "Query"), "t", Vertex("S2", "T")),
     Field(Vertex("S2", "T"), "a", Vertex("S2", "T")),
     Requires(Vertex("S2", "T"), "b", Vertex("S2", "Int"),
              <<Selection("x", <<>>)>>),
     Field(Vertex("S2", "T"), "x", Vertex("S2", "Int")) >>

\* An interface and a mutation root:
\* type Query { t(id: ID!): T }  interface T { b: Int }  type U implements T { c: Int }
\* type Mutation { m: Int  n: Int }
MergedCast ==
  Graph(<<"query", "mutation">>, [k \in {"query", "mutation"} |-> SuperRoot(k)],
        << Field(SuperRoot("query"), "t", Super("T")),
           Field(Super("T"), "b", Super("Int")),
           Edge(Super("T"), Super("U"), "DownCast", "U", <<>>),
           Field(Super("U"), "c", Super("Int")),
           Field(SuperRoot("mutation"), "m", Super("Int")),
           Field(SuperRoot("mutation"), "n", Super("Int")) >>)

PoolCast ==
  << Field(Vertex("S1", "Query"), "t", Vertex("S1", "T")),
     Field(Vertex("S1", "T"), "b", Vertex("S1", "Int")),
     Edge(Vertex("S1", "T"), Vertex("S1", "U"), "DownCast", "U", <<>>),
     Field(Vertex("S1", "U"), "c", Vertex("S1", "Int")),
     Field(Vertex("S1", "Mutation"), "m", Vertex("S1", "Int")),
     Field(Vertex("S1", "Mutation"), "n", Vertex("S1", "Int")) >>

\* The services graph of the federated roots `roots`, entered through the
\* edges `enter`, holding the edges of `pool` chosen by `chosen`.
Services(roots, enter, pool, chosen) ==
  Graph(<<>>, roots,
        enter \o SelectSeq(pool, LAMBDA e : e \in chosen))

QueryRoots == [k \in {"query"} |-> FederatedRoot(k)]
BothRoots == [k \in {"query", "mutation"} |-> FederatedRoot(k)]

EnterQuery ==
  << Enter("query", Vertex("S1", "Query")), Enter("query", Vertex("S2", "Query")) >>
EnterBoth ==
  << Enter("query", Vertex("S1", "Query")), Enter("mutation", Vertex("S1", "Mutation")) >>

\* Graph pairs that upstream graph construction is asserted never to build:
\* a merged edge with conditions, a services root of the wrong type name, a
\* services root leading to a type of another name.
MergedConditioned ==
  Graph(<<"query">>, [k \in {"query"} |-> SuperRoot(k)],
        << Field(SuperRoot("query"), "t", Super("T")),
           Requires(Super("T"), "b", Super("Int"), <<Selection("x", <<>>)>>) >>)

MisnamedRoots == [k \in {"query"} |-> RootVertex("federated", "Query", k)]

EnterMismatch == << Enter("query", Vertex("S1", "Q")) >>

Malformed ==
  { [merged |-> MergedConditioned,
     services |-> Services(QueryRoots, EnterQuery, PoolRecursive, Range(PoolRecursive))],
    [merged |-> MergedRecursive,
     services |-> Services(MisnamedRoots, EnterQuery, PoolRecursive, Range(PoolRecursive))],
    [merged |-> MergedRecursive,
     services |-> Services(QueryRoots, EnterMismatch, PoolRecursive, Range(PoolRecursive))] }

\* Every graph pair an entry point is run on.
Inputs ==
  { [merged |-> MergedRecursive,
     services |-> Services(QueryRoots, EnterQuery, PoolRecursive, chosen)] :
       chosen \in SUBSET Range(PoolRecursive) }
  \cup
  { [merged |-> MergedCast,
     services |-> Services(roots, EnterBoth, PoolCast, chosen)] :
       roots \in {QueryRoots, BothRoots}, chosen \in SUBSET Range(PoolCast) }
  \cup Malformed

-----------------------------------------------------------------------------
(* validateGraphComposition: the traversal                                 *)

NoResult == [kind |-> "none"]
\* The value returned: {} (error undefined) or {error}.
Returned(error) == [kind |-> "returned", error |-> error]
\* An exception that reached the caller.
Thrown == [kind |-> "thrown"]

\* Mutant of catch: every exception becomes the result's error.
catchAll(e) == Returned(e)

\* The catch block of validateGraphComposition and of computeSubgraphPaths: a
\* ValidationError becomes the result's error, anything else is thrown again.
catch(e) == IF e.kind = "ValidationError" THEN Returned(e) ELSE Thrown

Init ==
  /\ \E in \in Inputs : supergraph = in.merged /\ subgraphs = in.services
  /\ stack = <<>>
  /\ state = Undefined
  /\ edges = <<>>
  /\ pc = "start"
  /\ result = NoResult
  /\ input = Undefined
  /\ raised = <<>>
  /\ expanded = {}

\* new ValidationTaversal(supergraph, subgraphs): one initial state per root
\* kind of the merged graph is pushed; a failed assertion leaves the try block.
Construct ==
  /\ pc = "start"
  /\ LET kinds == supergraph.rootKinds
         seeds == [i \in 1..Len(kinds) |-> initial(supergraph, kinds[i], subgraphs)]
     IN  IF \E i \in 1..Len(seeds) : seeds[i] = AssertionFailure
         THEN /\ pc' = "done"
              /\ result' = catch(AssertionFailure)
              /\ stack' = stack
         ELSE /\ pc' = "loop"
              /\ result' = result
              /\ stack' = seeds
  /\ UNCHANGED <<supergraph, subgraphs, state, edges, input, raised, expanded>>

\* Mutant of Pop: any state of the stack is taken, not the last pushed.
PopAny ==
  /\ pc = "loop"
  /\ Len(stack) > 0
  /\ \E k \in 1..Len(stack) :
       /\ state' = stack[k]
       /\ stack' = SubSeq(stack, 1, k - 1) \o SubSeq(stack, k + 1, Len(stack))
       /\ edges' = nextEdges(supergraph, stack[k].supergraphPath)
       /\ expanded' = expanded \cup {stack[k]}
  /\ pc' = "handle"
  /\ UNCHANGED <<supergraph, subgraphs, result, input, raised>>

\* validate(): `while (stack.length > 0) handleState(stack.pop())`, entering
\* handleState's loop over state.supergraphPath.nextEdges().
Pop ==
  /\ pc = "loop"
  /\ Len(stack) > 0
  /\ state' = stack[Len(stack)]
  /\ stack' = SubSeq(stack, 1, Len(stack) - 1)
  /\ edges' = nextEdges(supergraph, stack[Len(stack)].supergraphPath)
  /\ expanded' = expanded \cup {stack[Len(stack)]}
  /\ pc' = "handle"
  /\ UNCHANGED <<supergraph, subgraphs, result, input, raised>>

\* Mutant of HandleEdge: a state that has cycled is pushed too.
HandleEdgeNoCycleCheck ==
  /\ pc = "handle"
  /\ Len(edges) > 0
  /\ \E newState \in {validateTransition(subgraphs, state, Head(edges))} :
         CASE newState = AssertionFailure ->
                /\ pc' = "done"
                /\ result' = catch(newState)
                /\ UNCHANGED <<stack, edges, raised>>
           [] newState.kind = "ValidationError" ->
                /\ pc' = "done"
                /\ result' = catch(newState)
                /\ raised' = Append(raised, newState)
                /\ UNCHANGED <<stack, edges>>
           [] OTHER ->
                /\ stack' = IF ~isTerminal(supergraph, newState.supergraphPath)
                            THEN Append(stack, newState)
                            ELSE stack
                /\ edges' = Tail(edges)
                /\ UNCHANGED <<pc, result, raised>>
  /\ UNCHANGED <<supergraph, subgraphs, state, input, expanded>>

\* Mutant of HandleEdge: a ValidationError is recorded and the loop goes on.
HandleEdgeKeepGoing ==
  /\ pc = "handle"
  /\ Len(edges) > 0
  /\ \E newState \in {validateTransition(subgraphs, state, Head(edges))} :
         CASE newState = AssertionFailure ->
                /\ pc' = "done"
                /\ result' = catch(newState)
                /\ UNCHANGED <<stack, edges, raised>>
           [] newState.kind = "ValidationError" ->
                /\ result' = catch(newState)
                /\ raised' = Append(raised, newState)
                /\ edges' = Tail(edges)
                /\ UNCHANGED <<stack, pc>>
           [] OTHER ->
                /\ stack' = IF /\ ~isTerminal(supergraph, newState.supergraphPath)
                               /\ ~hasCycled(newState)
                            THEN Append(stack, newState)
                            ELSE stack
                /\ edges' = Tail(edges)
                /\ UNCHANGED <<pc, result, raised>>
  /\ UNCHANGED <<supergraph, subgraphs, state, input, expanded>>

\* Mutant of HandleEdge: a new state whose merged path is terminal is pushed
\* too.
HandleEdgePushesTerminal ==
  /\ pc = "handle"
  /\ Len(edges) > 0
  /\ \E newState \in {validateTransition(subgraphs, state, Head(edges))} :
         CASE newState = AssertionFailure ->
                /\ pc' = "done"
                /\ result' = catch(newState)
                /\ UNCHANGED <<stack, edges, raised>>
           [] newState.kind = "ValidationError" ->
                /\ pc' = "done"
                /\ result' = catch(newState)
                /\ raised' = Append(raised, newState)
                /\ UNCHANGED <<stack, edges>>
           [] OTHER ->
                /\ stack' = IF ~hasCycled(newState)
                            THEN Append(stack, newState)
                            ELSE stack
                /\ edges' = Tail(edges)
                /\ UNCHANGED <<pc, result, raised>>
  /\ UNCHANGED <<supergraph, subgraphs, state, input, expanded>>

\* Mutant of HandleEdge: validateTransition advances the state it is called
\* on, so the next edge is taken from the advanced state.
HandleEdgeMutatesState ==
  /\ pc = "handle"
  /\ Len(edges) > 0
  /\ \E newState \in {validateTransition(subgraphs, state, Head(edges))} :
         CASE newState = AssertionFailure ->
                /\ pc' = "done"
                /\ result' = catch(newState)
                /\ UNCHANGED <<stack, state, edges, raised>>
           [] newState.kind = "ValidationError" ->
                /\ pc' = "done"
                /\ result' = catch(newState)
                /\ raised' = Append(raised, newState)
                /\ UNCHANGED <<stack, state, edges>>
           [] OTHER ->
                /\ stack' = IF /\ ~isTerminal(supergraph, newState.supergraphPath)
                               /\ ~hasCycled(newState)
                            THEN Append(stack, newState)
                            ELSE stack
                /\ state' = newState
                /\ edges' = Tail(edges)
                /\ UNCHANGED <<pc, result, raised>>
  /\ UNCHANGED <<supergraph, subgraphs, input, expanded>>

\* One iteration of handleState's loop: validateTransition on the next edge,
\* then the push of the new state unless it is terminal or has cycled.
HandleEdge ==
  /\ pc = "handle"
  /\ Len(edges) > 0
  /\ \E newState \in {validateTransition(subgraphs, state, Head(edges))} :
         CASE newState = AssertionFailure ->
                /\ pc' = "done"
                /\ result' = catch(newState)
                /\ UNCHANGED <<stack, edges, raised>>
           [] newState.kind = "ValidationError" ->
                /\ pc' = "done"
                /\ result' = catch(newState)
                /\ raised' = Append(raised, newState)
                /\ UNCHANGED <<stack, edges>>
           [] OTHER ->
                /\ stack' = IF /\ ~isTerminal(supergraph, newState.supergraphPath)
                               /\ ~hasCycled(newState)
                            THEN Append(stack, newState)
                            ELSE stack
                /\ edges' = Tail(edges)
                /\ UNCHANGED <<pc, result, raised>>
  /\ UNCHANGED <<supergraph, subgraphs, state, input, expanded>>

\* handleState returns once every edge was iterated.
HandleStateReturn ==
  /\ pc = "handle"
  /\ Len(edges) = 0
  /\ pc' = "loop"
  /\ UNCHANGED <<supergraph, subgraphs, stack, state, edges, result, input, raised, expanded>>

\* validate() returns with the stack empty: `return {}`.
ValidateReturn ==
  /\ pc = "loop"
  /\ Len(stack) = 0
  /\ pc' = "done"
  /\ result' = Returned(Undefined)
  /\ UNCHANGED <<supergraph, subgraphs, stack, state, edges, input, raised, expanded>>

Next == Construct \/ Pop \/ HandleEdge \/ HandleStateReturn \/ ValidateReturn

Spec == Init /\ [][Next]_vars

\* The traversal runs to its end: the program is one synchronous computation.
SpecFair == Spec /\ WF_vars(Next)

-----------------------------------------------------------------------------
(* What the claims speak of, stated on the graphs themselves               *)

\* The services vertices that mirror merged edge `e` from services vertex `w`:
\* the tails of w's outgoing edges with e's transition and e's tail type whose
\* conditions validate.
Mirrors(services, w, e) ==
  LET out == outEdges(services, w)
  IN  { out[i].tail : i \in
          { j \in 1..Len(out) :
              /\ out[j].transition = e.transition
              /\ out[j].tail.type = e.tail.type
              /\ \/ ~hasConditions(out[j])
                 \/ validateConditions(services, out[j].conditions,
                                       GraphPathCreate(w), {}) # Null } }

MirrorStep(services, C, e) == UNION { Mirrors(services, w, e) : w \in C }

\* Where the services graph is entered for a root kind.
Entries(services, kind) ==
  LET out == outEdges(services, root(services, kind))
  IN  { out[i].tail : i \in 1..Len(out) }

RECURSIVE Reach(_, _, _)
\* The pairs (merged vertex, services vertices that mirror some merged path to
\* it) reachable from the pairs of S; a pair with no services vertex has no
\* successor.
Reach(merged, services, S) ==
  LET live == { q \in S : q[2] # {} }
      steps == { r \in Range(merged.edges) \X live : r[1].head = r[2][1] }
      next == S \cup { <<r[1].tail, MirrorStep(services, r[2][2], r[1])>> :
                         r \in steps }
  IN  IF next = S THEN S ELSE Reach(merged, services, next)

\* Some path from a root of the merged graph has a last edge that no services
\* path mirrors.
UnsatisfiablePathExists(merged, services) ==
  \E p \in Reach(merged, services,
                 { <<root(merged, merged.rootKinds[i]),
                     Entries(services, merged.rootKinds[i])>> :
                     i \in 1..Len(merged.rootKinds) }) : p[2] = {}

\* C1: completeness of failure reporting. Whenever validateGraphComposition
\* returns and some path from a merged root has a last edge that no candidate
\* services path mirrors, the result carries an error: {} is never returned
\* then, also when that path lies beyond a state pruned for having cycled.
C1_Completeness ==
  (pc = "done" /\ result.kind = "returned"
     /\ UnsatisfiablePathExists(supergraph, subgraphs))
  => result.error # Undefined

\* The longest merged path handed to computeSubgraphPaths or considered by a
\* claim about every merged path.
MaxPathLen == 3

RECURSIVE PathsFrom(_, _, _)
\* The edge sequences of at most n edges that leave vertex v in `graph`.
PathsFrom(graph, v, n) ==
  IF n = 0 THEN { <<>> }
  ELSE { <<>> } \cup
       UNION { { <<e>> \o rest : rest \in PathsFrom(graph, e.tail, n - 1) } :
                 e \in Range(outEdges(graph, v)) }

\* Services path `sp` mirrors merged path `es`: equal length, the same
\* transitions to types of the same name, every condition validated.
MirrorsPath(services, sp, es) ==
  /\ Len(sp) = Len(es)
  /\ \A i \in 1..Len(es) :
       /\ sp[i].transition = es[i].transition
       /\ sp[i].tail.type = es[i].tail.type
       /\ \/ ~hasConditions(sp[i])
          \/ validateConditions(services, sp[i].conditions,
                                GraphPathCreate(sp[i].head), {}) # Null

\* C2: soundness. When validateGraphComposition returns no error, every path
\* (here: of at most MaxPathLen edges) from every root of the merged graph is
\* mirrored by some services path with the same transitions to the same target
\* types and validated conditions.
C2_Soundness ==
  (pc = "done" /\ result = Returned(Undefined))
  => \A i \in 1..Len(supergraph.rootKinds) :
       \A es \in PathsFrom(supergraph, root(supergraph, supergraph.rootKinds[i]),
                           MaxPathLen) :
         \E entry \in Entries(subgraphs, supergraph.rootKinds[i]) :
           \E sp \in PathsFrom(subgraphs, entry, Len(es)) :
             MirrorsPath(subgraphs, sp, es)

\* C3: termination. The traversal loop always stops (the stack empties, an
\* error is raised or an assertion fails), and no state handed to handleState
\* holds a candidate services path that has just revisited a vertex.
C3_Termination ==
  /\ <>(pc = "done")
  /\ [](\A s \in expanded :
          \A i \in 1..Len(s.subgraphPaths) : ~hasJustCycled(s.subgraphPaths[i]))

\* A traversal of the recursive type ended without error after a successor
\* that had cycled was computed and not pushed.
C3_Witness ==
  /\ pc = "done"
  /\ result = Returned(Undefined)
  /\ \E s \in expanded :
       \E e \in Range(nextEdges(supergraph, s.supergraphPath)) :
         LET n == validateTransition(subgraphs, s, e)
         IN  /\ n.kind = "ValidationState"
             /\ hasCycled(n)
             /\ ~isTerminal(supergraph, n.supergraphPath)

\* The ValidationStates that exist: on the stack, handed to handleState, and
\* the successors validateTransition returns for the state being handled.
LiveStates ==
  Range(stack) \cup expanded \cup
  (IF pc = "handle"
   THEN { n \in { validateTransition(subgraphs, state, e) :
                    e \in Range(nextEdges(supergraph, state.supergraphPath)) } :
            n.kind = "ValidationState" }
   ELSE {})

\* C4: every ValidationState of a traversal has at least one candidate
\* services path, and each candidate's tail type name is the tail type name of
\* the state's merged path.
C4_StateInvariant ==
  \A s \in LiveStates :
    /\ Len(s.subgraphPaths) > 0
    /\ \A i \in 1..Len(s.subgraphPaths) :
         tail(s.subgraphPaths[i]).type = tail(s.supergraphPath).type

\* A state reached by a transition, with two candidates, is being handled.
C4_Witness ==
  /\ pc = "handle"
  /\ size(state.supergraphPath) >= 1
  /\ Len(state.subgraphPaths) >= 2

\* The tail vertices of the candidates of a state.
CandidateTails(s) == { tail(s.subgraphPaths[i]) : i \in 1..Len(s.subgraphPaths) }

\* C5: a validateTransition that leaves no candidate raises a ValidationError
\* whose unsatisfiable path is the state's merged path extended by that edge
\* and whose services paths are the state's candidates before the step; no
\* successor state comes of it.
C5_ErrorShape ==
  /\ raised # <<>> =>
       LET err == raised[Len(raised)]
           edge == Head(edges)
       IN  /\ err.supergraphUnsatisfiablePath =
                add(state.supergraphPath, edge.transition, edge)
           /\ err.subgraphsPaths = state.subgraphPaths
           /\ MirrorStep(subgraphs, CandidateTails(state), edge) = {}
           /\ \A i \in 1..Len(stack) :
                stack[i].supergraphPath # err.supergraphUnsatisfiablePath
  /\ (pc = "handle" /\ edges # <<>> /\ ~hasConditions(Head(edges))
        /\ MirrorStep(subgraphs, CandidateTails(state), Head(edges)) = {})
     => validateTransition(subgraphs, state, Head(edges)).kind = "ValidationError"

\* An error was raised from a state past the root that held two candidates.
C5_Witness ==
  /\ raised # <<>>
  /\ size(state.supergraphPath) >= 1
  /\ Len(state.subgraphPaths) >= 2

\* Every transition handled before the current one gave a state: those of the
\* states handled earlier, and the edges of the current state already iterated.
EarlierAllValid ==
  /\ \A s \in expanded \ {state} :
       \A e \in Range(nextEdges(supergraph, s.supergraphPath)) :
         validateTransition(subgraphs, s, e).kind = "ValidationState"
  /\ LET all == nextEdges(supergraph, state.supergraphPath)
     IN  \A i \in 1..(Len(all) - Len(edges)) :
           validateTransition(subgraphs, state, all[i]).kind = "ValidationState"

\* C6: first failure aborts. At most one ValidationError is ever raised; once
\* it is, the traversal is over, the result carries exactly that error, every
\* transition handled before it had succeeded, and nothing is popped, advanced
\* or pushed afterwards.
C6_FirstFailureAborts ==
  /\ [](/\ Len(raised) <= 1
        /\ raised # <<>> =>
             /\ pc = "done"
             /\ result = Returned(raised[1])
             /\ EarlierAllValid)
  /\ [][raised # <<>> => UNCHANGED <<stack, state, edges, expanded, raised, result>>]_vars

\* An error was raised while states waited on the stack and edges of the
\* current state were still to iterate.
C6_Witness ==
  /\ raised # <<>>
  /\ Len(stack) > 0
  /\ Len(edges) > 1

\* An assertion of the constructor fails: a root kind of the merged graph has
\* no services root, a services root of another type name, or an entry of a
\* type name that differs from the merged root's.
ConstructAsserts(merged, services) ==
  \E i \in 1..Len(merged.rootKinds) :
    LET kind == merged.rootKinds[i]
    IN  \/ kind \notin DOMAIN services.roots
        \/ services.roots[kind].type # federatedGraphRootTypeName(kind)
        \/ \E v \in Entries(services, kind) : v.type # merged.roots[kind].type

\* C7: validateGraphComposition returns a raised ValidationError as the
\* result's `error` and never throws it; it throws exactly when an assertion
\* failed (the constructor's, or validateTransition's on a conditioned merged
\* edge), and then nothing is returned.
C7_ErrorsReturnedAssertionsThrown ==
  pc = "done" =>
    /\ raised # <<>> => result = Returned(raised[1])
    /\ result = Thrown <=>
         \/ ConstructAsserts(supergraph, subgraphs)
         \/ edges # <<>> /\ hasConditions(Head(edges))
    /\ result # Thrown => result.kind = "returned"

\* The assertion on a conditioned merged edge failed in the middle of a
\* traversal and reached the caller.
C7_Witness ==
  /\ pc = "done"
  /\ result = Thrown
  /\ state # Undefined
  /\ hasConditions(Head(edges))

-----------------------------------------------------------------------------
(* computeSubgraphPaths: one merged path replayed on the services graph    *)

\* The value returned: {traversal} or {error}.
ReturnedPaths(traversal, error) ==
  [kind |-> "returned", traversal |-> traversal, error |-> error]

\* The catch block of computeSubgraphPaths.
catchPaths(e) ==
  IF e.kind = "ValidationError" THEN ReturnedPaths(Undefined, e) ELSE Thrown

\* The merged paths of at most n edges from the roots of `merged`.
RootPathsUpTo(merged, n) ==
  UNION { { [root |-> root(merged, merged.rootKinds[i]),
             steps |-> [j \in 1..Len(es) |->
                          [edge |-> es[j], trigger |-> es[j].transition]]] :
            es \in PathsFrom(merged, root(merged, merged.rootKinds[i]), n) } :
          i \in 1..Len(merged.rootKinds) }

RootPaths(merged) == RootPathsUpTo(merged, MaxPathLen)

InitPaths ==
  /\ \E in \in Inputs :
       /\ supergraph = in.merged
       /\ subgraphs = in.services
       /\ input \in RootPaths(in.merged)
  /\ stack = <<>>
  /\ state = Undefined
  /\ edges = <<>>
  /\ pc = "compute"
  /\ result = NoResult
  /\ raised = <<>>
  /\ expanded = {}

\* The assertion on the path's edge conditions and ValidationState.initial for
\* the path's root kind; reduceMainPath then starts on the path's edges.
ComputeStart ==
  /\ pc = "compute"
  /\ \E initialState \in
        { IF hasAnyEdgeConditions(input) THEN AssertionFailure
          ELSE initial(supergraph, input.root.rootKind, subgraphs) } :
        IF initialState = AssertionFailure
        THEN /\ pc' = "done"
             /\ result' = catchPaths(initialState)
             /\ UNCHANGED <<state, edges>>
        ELSE /\ pc' = "reduce"
             /\ state' = initialState
             /\ edges' = elements(input)
             /\ result' = result
  /\ UNCHANGED <<supergraph, subgraphs, stack, input, raised, expanded>>

\* Mutant of ReduceStep: the reducer swallows a ValidationError and goes on
\* from the state it had.
ReduceStepSwallows ==
  /\ pc = "reduce"
  /\ Len(edges) > 0
  /\ \E newState \in {validateTransition(subgraphs, state, Head(edges))} :
        CASE newState = AssertionFailure ->
               /\ pc' = "done"
               /\ result' = catchPaths(newState)
               /\ UNCHANGED <<state, edges, raised>>
          [] newState.kind = "ValidationError" ->
               /\ raised' = Append(raised, newState)
               /\ edges' = Tail(edges)
               /\ UNCHANGED <<state, pc, result>>
          [] OTHER ->
               /\ state' = newState
               /\ edges' = Tail(edges)
               /\ UNCHANGED <<pc, result, raised>>
  /\ UNCHANGED <<supergraph, subgraphs, stack, input, expanded>>

\* One step of reduceMainPath: `state.validateTransition(schema, edge)` on the
\* next edge of the path; a throw leaves the reduction for the catch block.
ReduceStep ==
  /\ pc = "reduce"
  /\ Len(edges) > 0
  /\ \E newState \in {validateTransition(subgraphs, state, Head(edges))} :
        CASE newState = AssertionFailure ->
               /\ pc' = "done"
               /\ result' = catchPaths(newState)
               /\ UNCHANGED <<state, edges, raised>>
          [] newState.kind = "ValidationError" ->
               /\ pc' = "done"
               /\ result' = catchPaths(newState)
               /\ raised' = Append(raised, newState)
               /\ UNCHANGED <<state, edges>>
          [] OTHER ->
               /\ state' = newState
               /\ edges' = Tail(edges)
               /\ UNCHANGED <<pc, result, raised>>
  /\ UNCHANGED <<supergraph, subgraphs, stack, input, expanded>>

\* The reduction is over: `return {traversal}`.
ComputeReturn ==
  /\ pc = "reduce"
  /\ Len(edges) = 0
  /\ pc' = "done"
  /\ result' = ReturnedPaths(state, Undefined)
  /\ UNCHANGED <<supergraph, subgraphs, stack, state, edges, input, raised, expanded>>

NextPaths == ComputeStart \/ ReduceStep \/ ComputeReturn

SpecPaths == InitPaths /\ [][NextPaths]_vars

RECURSIVE TailsAfter(_, _, _, _)
\* The services vertices that mirror the first k edges of `es` from the
\* entries of root kind `kind`.
TailsAfter(services, kind, es, k) ==
  IF k = 0 THEN Entries(services, kind)
  ELSE MirrorStep(services, TailsAfter(services, kind, es, k - 1), es[k])

RECURSIVE FoldTransitions(_, _, _)
\* The left fold of validateTransition over `es` from `st`, stopping at the
\* first outcome that is not a state.
FoldTransitions(services, st, es) ==
  IF es = <<>> \/ st.kind # "ValidationState" THEN st
  ELSE FoldTransitions(services, validateTransition(services, st, Head(es)), Tail(es))

\* C8: computeSubgraphPaths is the left fold of validateTransition over the
\* path's edges from the initial state of the path's root kind. If every step
\* keeps a candidate it returns `traversal`, whose merged path has the edges
\* of the path; otherwise it returns `error` for the first edge k that leaves
\* no candidate, with the prefix of length k as unsatisfiable path, and the
\* edges after k are not processed. Exactly one of the two is present.
C8_ComputeIsFold ==
  (pc = "done" /\ result.kind = "returned") =>
    LET es == elements(input)
        kind == input.root.rootKind
        bad == { k \in 1..Len(es) : TailsAfter(subgraphs, kind, es, k) = {} }
        fold == FoldTransitions(subgraphs, initial(supergraph, kind, subgraphs), es)
    IN  /\ (result.traversal = Undefined) # (result.error = Undefined)
        /\ IF bad = {}
           THEN /\ result.traversal = fold
                /\ result.traversal.kind = "ValidationState"
                /\ elements(result.traversal.supergraphPath) = es
                /\ edges = <<>>
           ELSE LET k == CHOOSE j \in bad : \A l \in bad : j <= l
                IN  /\ result.error = fold
                    /\ result.error.kind = "ValidationError"
                    /\ elements(result.error.supergraphUnsatisfiablePath) =
                         SubSeq(es, 1, k)
                    /\ edges = SubSeq(es, k, Len(es))

\* An error was returned for the second edge of a path of three edges.
C8_Witness ==
  /\ pc = "done"
  /\ result.kind = "returned"
  /\ result.error # Undefined
  /\ size(result.error.supergraphUnsatisfiablePath) = 2
  /\ size(input) = 3

-----------------------------------------------------------------------------
(* The witness builder on its own                                          *)

\* A merged graph with every kind of transition, for paths handed to the
\* witness builder.
MergedAllKinds ==
  Graph(<<"query">>, [k \in {"query"} |-> SuperRoot(k)],
        << Field(SuperRoot("query"), "t", Super("T")),
           Edge(SuperRoot("query"), Super("T"), "FreeTransition", "", <<>>),
           Field(Super("T"), "a", Super("T")),
           Field(Super("T"), "b", Super("Int")),
           Edge(Super("T"), Super("U"), "DownCast", "U", <<>>),
           Edge(Super("T"), Super("T"), "KeyResolution", "", <<>>),
           Field(Super("U"), "c", Super("Int")),
           Edge(Super("U"), Super("U"), "KeyResolution", "", <<>>) >>)

\* The longest path handed to the witness builder.
MaxWitnessLen == 4

InitWitness ==
  /\ \E merged \in {MergedRecursive, MergedCast, MergedAllKinds} :
       /\ supergraph = merged
       /\ input \in RootPathsUpTo(merged, MaxWitnessLen)
  /\ subgraphs = Graph(<<>>, QueryRoots, <<>>)
  /\ stack = <<>>
  /\ state = Undefined
  /\ edges = <<>>
  /\ pc = "witness"
  /\ result = NoResult
  /\ raised = <<>>
  /\ expanded = {}

\* validationError(path, []): the error and its witness operation for a path.
BuildWitness ==
  /\ pc = "witness"
  /\ pc' = "done"
  /\ result' = validationError(input, <<>>)
  /\ UNCHANGED <<supergraph, subgraphs, stack, state, edges, input, raised, expanded>>

NextWitness == BuildWitness

SpecWitness == InitWitness /\ [][NextWitness]_vars

RECURSIVE Levels(_)
\* The nesting levels of a selection set, outermost first: the type each
\* selection set is on and its selection. A selection set of several
\* selections is no nesting (it gives a level of kind "many").
Levels(ss) ==
  IF ss = Undefined \/ ss.selections = <<>> THEN <<>>
  ELSE IF Len(ss.selections) > 1 THEN <<[type |-> ss.type, kind |-> "many"]>>
  ELSE LET sel == ss.selections[1]
       IN  <<[type |-> ss.type, kind |-> sel.kind,
              name |-> IF sel.kind = "FieldSelection" THEN sel.field.definition
                       ELSE sel.typeCondition]>>
           \o Levels(sel.selectionSet)

RECURSIVE Innermost(_)
\* The selection below the last nesting level: undefined, or a selection set
\* without selections.
Innermost(ss) ==
  IF ss = Undefined \/ ss.selections = <<>> THEN ss
  ELSE Innermost(ss.selections[1].selectionSet)

\* The edges of a path that collect a field or cast a type.
Collecting(es) ==
  SelectSeq(es, LAMBDA e : e.transition.kind \in {"FieldCollection", "DownCast"})

\* C9: the witness selection of a path nests, outermost first and in path
\* order, one selection per FieldCollection edge (a field selection of that
\* field in a selection set on the edge's head type) and per DownCast edge (a
\* fragment on the casted type); KeyResolution and FreeTransition edges add
\* nothing, so there are as many levels as FieldCollection and DownCast edges.
C9_WitnessStructure ==
  (pc = "done" /\ result.kind = "ValidationError") =>
    LET col == Collecting(elements(input))
        lv == Levels(result.witness.selectionSet)
    IN  /\ Len(lv) = Len(col)
        /\ \A k \in 1..Len(col) :
             /\ lv[k].type = col[k].head.type
             /\ lv[k].name = col[k].transition.name
             /\ lv[k].kind = IF col[k].transition.kind = "FieldCollection"
                             THEN "FieldSelection" ELSE "FragmentSelection"

\* The witness of a path that holds a field, a key resolution and a downcast.
C9_Witness ==
  /\ pc = "done"
  /\ result.kind = "ValidationError"
  /\ \A k \in {"FieldCollection", "KeyResolution", "DownCast"} :
       \E i \in 1..size(input) : input.steps[i].edge.transition.kind = k

\* C10: the innermost selection of the witness is absent when the tail type of
\* the last edge of the path is a leaf type and is a selection set without
\* selections on that type otherwise; the last edge's tail type alone decides.
C10_InnermostSelection ==
  (pc = "done" /\ result.kind = "ValidationError") =>
    LET lastType == tail(input).type
    IN  Innermost(result.witness.selectionSet) =
          IF lastType \in LeafTypes THEN Undefined
          ELSE SelectionSet(lastType, <<>>)

\* The witness of a path of at least two edges that ends on a type that is not
\* a leaf holds the empty selection set.
C10_Witness ==
  /\ pc = "done"
  /\ result.kind = "ValidationError"
  /\ size(input) >= 2
  /\ tail(input).type \notin LeafTypes
  /\ Innermost(result.witness.selectionSet) # Undefined

-----------------------------------------------------------------------------
(* generateWitnessValue on its own                                         *)

\* The most fields an input object handed to generateWitnessValue declares.
MaxFields == 2

FieldNames == <<"f1", "f2", "f3", "f4">>

\* The types of the fields: nullable and non-null scalars, a list, an enum and
\* a nested input object.
ValueFieldTypes ==
  { ScalarType("Int"),
    NonNullType(ScalarType("Int")),
    NonNullType(ScalarType("Boolean")),
    NonNullType(ScalarType("String")),
    NonNullType(ListType(ScalarType("Int"))),
    NonNullType(EnumType(<<"A", "B">>)),
    NonNullType(InputObjectType(
      <<InputField("g", NonNullType(ScalarType("Float")), Undefined),
        InputField("h", ScalarType("ID"), Undefined)>>)) }

\* The default values a field of that type may declare.
DefaultsOf(type) ==
  LET named == IF type.kind = "NonNullType" THEN type.ofType ELSE type
  IN  IF named.kind # "ScalarType" THEN {}
      ELSE CASE named.name = "Int" -> {Value("number", "0"), Value("number", "7")}
             [] named.name = "Boolean" ->
                  {Value("boolean", "false"), Value("boolean", "true")}
             [] named.name = "String" -> {Value("string", ""), Value("string", "x")}
             [] OTHER -> {}

\* A field's type with its default value (undefined: none declared).
FieldShapes ==
  UNION { { [type |-> t, defaultValue |-> d] : d \in {Undefined} \cup DefaultsOf(t) } :
          t \in ValueFieldTypes }

\* The input objects of at most n fields.
InputObjectsUpTo(n) ==
  UNION { { InputObjectType([i \in 1..k |->
                InputField(FieldNames[i], shapes[i].type, shapes[i].defaultValue)]) :
              shapes \in [1..k -> FieldShapes] } :
          k \in 0..n }

InitValue ==
  /\ input \in InputObjectsUpTo(MaxFields) \cup ValueFieldTypes
  /\ supergraph = Graph(<<>>, QueryRoots, <<>>)
  /\ subgraphs = Graph(<<>>, QueryRoots, <<>>)
  /\ stack = <<>>
  /\ state = Undefined
  /\ edges = <<>>
  /\ pc = "value"
  /\ result = NoResult
  /\ raised = <<>>
  /\ expanded = {}

\* generateWitnessValue(type)
GenerateValue ==
  /\ pc = "value"
  /\ pc' = "done"
  /\ result' = generateWitnessValue(input)
  /\ UNCHANGED <<supergraph, subgraphs, stack, state, edges, input, raised, expanded>>

NextValue == GenerateValue

SpecValue == InitValue /\ [][NextValue]_vars

\* The fields of an input object that are non-nullable and declare no default
\* value, whatever that value is.
RequiredFields(type) ==
  SelectSeq(type.fields,
            LAMBDA f : ~isNullableType(f.type) /\ f.defaultValue = Undefined)

\* C11: the value synthesized for an input object has exactly the keys of the
\* fields that are non-nullable and declare no default value, whatever the
\* declared default is (0, false and the empty string included); each key
\* holds the value synthesized for its field's type, and no value is null.
C11_InputObjectKeys ==
  (pc = "done" /\ input.kind = "InputObjectType") =>
    LET required == RequiredFields(input)
    IN  /\ result # Null
        /\ result.t = "object"
        /\ {result.entries[i].name : i \in 1..Len(result.entries)} =
             {required[i].name : i \in 1..Len(required)}
        /\ \A i \in 1..Len(result.entries) :
             /\ result.entries[i].value # Null
             /\ \E j \in 1..Len(input.fields) :
                  /\ input.fields[j].name = result.entries[i].name
                  /\ result.entries[i].value =
                       generateWitnessValue(input.fields[j].type)

-----------------------------------------------------------------------------
(* validateGraphComposition run twice on the same graph pair               *)

\* The caller keeps the outcome of the first call (in `input`) and calls
\* validateGraphComposition again with the same two graphs: a new traversal
\* is built, nothing of the first one is left.
Rerun ==
  /\ pc = "done"
  /\ input = Undefined
  /\ input' = result
  /\ stack' = <<>>
  /\ state' = Undefined
  /\ edges' = <<>>
  /\ pc' = "start"
  /\ result' = NoResult
  /\ raised' = <<>>
  /\ expanded' = {}
  /\ UNCHANGED <<supergraph, subgraphs>>

NextTwice == Construct \/ Pop \/ HandleEdge \/ HandleStateReturn \/ ValidateReturn \/ Rerun

SpecTwice == Init /\ [][NextTwice]_vars

\* The transition kinds of the edges of a path, in order.
TransitionKinds(path) ==
  [i \in 1..size(path) |-> path.steps[i].edge.transition.kind]

-----------------------------------------------------------------------------
(* The initial states                                                      *)

\* The services graph has no root of that kind, or one of another type name
\* than the federated root type name of the kind.
NoFederatedRoot(services, kind) ==
  \/ root(services, kind) = Undefined
  \/ root(services, kind).type # federatedGraphRootTypeName(kind)

\* C13: the initial state of a root kind has a merged path of zero edges at
\* the merged root of that kind and one candidate per outgoing edge of the
\* services root of that kind, in order, each made of that one edge taken with
\* a free transition. When the services graph has no root of some kind of the
\* merged graph, or one of another type name, an assertion fails: no state is
\* produced, no ValidationError is raised, the exception reaches the caller.
C13_InitialState ==
  LET kinds == supergraph.rootKinds
  IN  IF \E i \in 1..Len(kinds) : NoFederatedRoot(subgraphs, kinds[i])
      THEN pc # "start" =>
             /\ pc = "done"
             /\ result = Thrown
             /\ stack = <<>>
             /\ state = Undefined
             /\ expanded = {}
             /\ raised = <<>>
      ELSE (pc = "loop" /\ expanded = {}) =>
             /\ Len(stack) = Len(kinds)
             /\ \A i \in 1..Len(kinds) :
                  LET r == root(subgraphs, kinds[i])
                      out == outEdges(subgraphs, r)
                      paths == stack[i].subgraphPaths
                  IN  /\ stack[i].supergraphPath.steps = <<>>
                      /\ stack[i].supergraphPath.root = root(supergraph, kinds[i])
                      /\ Len(paths) = Len(out)
                      /\ \A j \in 1..Len(out) :
                           /\ paths[j].root = r
                           /\ paths[j].steps =
                                <<[edge |-> out[j], trigger |-> freeTransition]>>

\* The traversal was just built, with an initial state whose services root
\* has two outgoing edges.
C13_Witness ==
  /\ pc = "loop"
  /\ expanded = {}
  /\ \E i \in 1..Len(stack) : Len(stack[i].subgraphPaths) >= 2

-----------------------------------------------------------------------------
(* validateTransition on a merged edge that carries conditions             *)

\* The lists of candidates made of some of the candidates of `paths`, in order.
SubLists(paths) ==
  { SelectSeq(paths, LAMBDA p : p \in S) : S \in SUBSET Range(paths) }

\* C14: on a merged edge that carries conditions validateTransition fails its
\* assertion whatever the candidates are (none, some or all of the state's):
\* it gives no successor state and no ValidationError; in the traversal the
\* exception reaches the caller, nothing was raised and nothing was pushed.
C14_ConditionedEdgeAsserts ==
  (state # Undefined /\ edges # <<>> /\ hasConditions(Head(edges))) =>
    /\ \A candidates \in SubLists(state.subgraphPaths) :
         validateTransition(subgraphs, [state EXCEPT !.subgraphPaths = candidates],
                            Head(edges)) = AssertionFailure
    /\ pc = "done" =>
         /\ result = Thrown
         /\ raised = <<>>
         /\ \A i \in 1..Len(stack) :
              elements(stack[i].supergraphPath) #
                Append(elements(state.supergraphPath), Head(edges))

\* The traversal ended on the assertion, on a state of two candidates.
C14_Witness ==
  /\ pc = "done"
  /\ result = Thrown
  /\ state # Undefined
  /\ edges # <<>>
  /\ hasConditions(Head(edges))
  /\ Len(state.subgraphPaths) >= 2

-----------------------------------------------------------------------------
(* The push rule of handleState                                            *)

\* A step of handleState's loop that computed a new state pushes it exactly
\* when its merged path is not terminal and it has not cycled, and pushes
\* nothing else.
PushRule ==
  (pc = "handle" /\ edges # <<>> /\ edges' = Tail(edges)) =>
    LET newState == validateTransition(subgraphs, state, Head(edges))
    IN  IF ~isTerminal(supergraph, newState.supergraphPath) /\ ~hasCycled(newState)
        THEN stack' = Append(stack, newState)
        ELSE stack' = stack

\* C15: a successor computed by handleState is pushed if and only if its
\* merged path is not terminal and hasCycled() is false for it; so every
\* state of the stack but the initial ones is neither terminal nor cycled,
\* and a state whose merged path is terminal has no edge to expand.
C15_PushRule ==
  /\ [][PushRule]_vars
  /\ [](/\ \A i \in 1..Len(stack) :
             size(stack[i].supergraphPath) > 0 =>
               /\ ~isTerminal(supergraph, stack[i].supergraphPath)
               /\ ~hasCycled(stack[i])
        /\ (state # Undefined /\ isTerminal(supergraph, state.supergraphPath)) =>
             edges = <<>>)

\* A successor of a successor is on the stack while a state is handled.
C15_Witness ==
  /\ pc = "handle"
  /\ \E i \in 1..Len(stack) : size(stack[i].supergraphPath) >= 2

-----------------------------------------------------------------------------
(* The candidates of a successor state                                     *)

\* The outgoing edges of the tail of candidate `p` that match merged edge `e`:
\* same transition, same tail type name.
MatchingEdges(services, p, e) ==
  SelectSeq(outEdges(services, tail(p)),
            LAMBDA se : se.transition = e.transition /\ se.tail.type = e.tail.type)

\* The conditions of a matching edge validate from the tail of `p`.
ConditionsValidate(services, p, se) ==
  \/ ~hasConditions(se)
  \/ validateConditions(services, se.conditions, GraphPathCreate(tail(p)), {}) # Null

\* Path `q` is candidate `p` advanced by one edge.
AdvancedFrom(q, p) ==
  /\ q.root = p.root
  /\ Len(q.steps) = Len(p.steps) + 1
  /\ SubSeq(q.steps, 1, Len(p.steps)) = p.steps

\* The candidates of the state a step of the reduction gives are the
\* candidates before the step, each advanced by the merged edge.
AdvanceRule ==
  (pc = "reduce" /\ edges # <<>> /\ edges' = Tail(edges)) =>
    LET e == Head(edges)
        old == state.subgraphPaths
        new == state'.subgraphPaths
        by(i) == SelectSeq(MatchingEdges(subgraphs, old[i], e),
                           LAMBDA se : ConditionsValidate(subgraphs, old[i], se))
    IN  /\ new = Concat([i \in 1..Len(old) |->
                           [j \in 1..Len(by(i)) |-> add(old[i], e.transition, by(i)[j])]])
        /\ \A k \in 1..Len(new) : \E i \in 1..Len(old) : AdvancedFrom(new[k], old[i])
        /\ \A i \in 1..Len(old) :
             (~ \E k \in 1..Len(new) : AdvancedFrom(new[k], old[i])) <=>
               \/ MatchingEdges(subgraphs, old[i], e) = <<>>
               \/ \A se \in Range(MatchingEdges(subgraphs, old[i], e)) :
                    ~ConditionsValidate(subgraphs, old[i], se)

\* C16: the candidates of the successor state are the concatenation, in
\* candidate order, of the paths got by advancing each candidate by the merged
\* edge's transition toward the merged edge's tail type; a candidate gives
\* nothing if and only if it has no matching edge or the conditions of its
\* matching edges do not validate; every path of the successor is a candidate
\* advanced by one edge.
C16_CandidateAdvancement == [][AdvanceRule]_vars

\* Field b was reached with the candidate of service S1 alone: the candidate
\* of service S2 has a matching edge whose conditions do not validate (T.x is
\* not served).
C16_Witness ==
  /\ pc \in {"reduce", "done"}
  /\ state # Undefined
  /\ size(state.supergraphPath) >= 2
  /\ state.supergraphPath.steps[size(state.supergraphPath)].edge.transition.name = "b"
  /\ Len(state.subgraphPaths) = 1
  /\ tail(state.subgraphPaths[1]).src = "S1"
  /\ {PoolRecursive[4], PoolRecursive[6]} \subseteq Range(subgraphs.edges)
  /\ PoolRecursive[7] \notin Range(subgraphs.edges)

-----------------------------------------------------------------------------
(* validateConditions step by step, with the nested calls it makes through *)
(* the conditions callback                                                 *)

\* The edges a selection state asks the conditions callback about while it is
\* advanced: for every path of every path-set, in order, the outgoing edges
\* that collect the field, are not excluded and carry conditions.
pendingConditions(graph, this, excludedEdges) ==
  Concat([i \in 1..Len(this.subgraphPaths) |->
    Concat([j \in 1..Len(this.subgraphPaths[i]) |->
      SelectSeq(outEdges(graph, tail(this.subgraphPaths[i][j])),
                LAMBDA e : /\ e.transition.kind = "FieldCollection"
                           /\ e.transition.name = this.selection.element
                           /\ e \notin excludedEdges
                           /\ hasConditions(e))])])

\* advanceOpPath once the callback has answered: `valid` holds the edges whose
\* conditions validated.
advanceOpPathAnswered(graph, path, element, excludedEdges, valid) ==
  LET out == outEdges(graph, tail(path))
      usable(e) ==
        /\ e.transition.kind = "FieldCollection"
        /\ e.transition.name = element
        /\ e \notin excludedEdges
        /\ (~hasConditions(e) \/ e \in valid)
  IN  Concat([i \in 1..Len(out) |->
                IF usable(out[i]) THEN <<add(path, out[i].transition, out[i])>>
                ELSE <<>>])

RECURSIVE advanceSimultaneousPathsAnswered(_, _, _, _, _)
advanceSimultaneousPathsAnswered(graph, paths, element, excludedEdges, valid) ==
  IF paths = <<>> THEN << <<>> >>
  ELSE LET first == advanceOpPathAnswered(graph, Head(paths), element,
                                          excludedEdges, valid)
           rest == advanceSimultaneousPathsAnswered(
                     graph, Tail(paths), element, excludedEdges, valid)
       IN  Concat([i \in 1..Len(first) |->
                     [j \in 1..Len(rest) |-> <<first[i]>> \o rest[j]]])

\* The local state of one call of validateConditions: its arguments, its
\* stack (top last), the selection state it popped and is advancing
\* (undefined between two iterations), the edges the callback is still to be
\* asked about and its answers so far, and the selection states popped so far.
Frame(conditions, initialPath, excludedEdges) ==
  [conditions |-> conditions,
   initialPath |-> initialPath,
   excludedEdges |-> excludedEdges,
   cstack |-> [i \in 1..Len(conditions) |->
                 ConditionValidationState(conditions[i], << <<initialPath>> >>)],
   state |-> Undefined,
   pending |-> <<>>,
   answers |-> <<>>,
   log |-> <<>>]

\* The running call: the last frame of the call stack.
Top == stack[Len(stack)]

\* The deepest nesting of validateConditions calls explored.
MaxDepth == 4

\* The services graph of the condition validator: service S2 with an object
\* field x (also served under a requirement on z), y below it, a leaf z, two
\* fields b and c that require each other and d that requires x { y }.
PoolConditions ==
  << Field(Vertex("S2", "T"), "x", Vertex("S2", "X")),
     Requires(Vertex("S2", "T"), "x", Vertex("S2", "X"), <<Selection("z", <<>>)>>),
     Field(Vertex("S2", "X"), "y", Vertex("S2", "Int")),
     Field(Vertex("S2", "T"), "z", Vertex("S2", "Int")),
     Requires(Vertex("S2", "T"), "b", Vertex("S2", "Int"), <<Selection("c", <<>>)>>),
     Requires(Vertex("S2", "T"), "c", Vertex("S2", "Int"), <<Selection("b", <<>>)>>),
     Requires(Vertex("S2", "T"), "d", Vertex("S2", "Int"),
              <<Selection("x", <<Selection("y", <<>>)>>)>>) >>

\* The conditions validated from T of service S2.
ConditionInputs ==
  { <<Selection("x", <<Selection("y", <<>>)>>), Selection("z", <<>>)>>,
    <<Selection("z", <<>>), Selection("x", <<Selection("y", <<>>)>>)>>,
    <<Selection("b", <<>>)>>,
    <<Selection("d", <<>>), Selection("z", <<>>)>>,
    <<Selection("x", <<>>), Selection("c", <<>>)>> }

InitConditions ==
  /\ \E chosen \in SUBSET Range(PoolConditions) :
       subgraphs = Graph(<<>>, QueryRoots,
                         SelectSeq(PoolConditions, LAMBDA e : e \in chosen))
  /\ \E conditions \in ConditionInputs :
       input = [conditions |-> conditions,
                initialPath |-> GraphPathCreate(Vertex("S2", "T")),
                excludedEdges |-> {}]
  /\ supergraph = Graph(<<>>, QueryRoots, <<>>)
  /\ stack = <<>>
  /\ state = Undefined
  /\ edges = <<>>
  /\ pc = "conditions"
  /\ result = NoResult
  /\ raised = <<>>
  /\ expanded = {}

\* validateConditions is called: one selection state per top-level selection
\* is pushed on a new stack.
CondEnter ==
  /\ pc = "conditions"
  /\ stack' = <<Frame(input.conditions, input.initialPath, input.excludedEdges)>>
  /\ pc' = "cloop"
  /\ UNCHANGED <<supergraph, subgraphs, state, edges, result, input, raised, expanded>>

\* `const state = stack.pop()`, and validateCurrentSelection starts on it.
CondPop ==
  /\ pc = "cloop"
  /\ Top.state = Undefined
  /\ Top.cstack # <<>>
  /\ \E st \in {Top.cstack[Len(Top.cstack)]} :
       stack' = [stack EXCEPT ![Len(stack)] =
                   [Top EXCEPT !.cstack = SubSeq(@, 1, Len(@) - 1),
                               !.state = st,
                               !.pending = pendingConditions(subgraphs, st,
                                                             Top.excludedEdges),
                               !.answers = <<>>,
                               !.log = Append(@, st)]]
  /\ UNCHANGED <<supergraph, subgraphs, state, edges, pc, result, input, raised, expanded>>

\* Mutant of CondCallback: the nested call gets the excluded edges of its
\* caller, without the edge whose conditions it validates.
CondCallbackNoExclusion ==
  /\ pc = "cloop"
  /\ Top.state # Undefined
  /\ Top.pending # <<>>
  /\ Len(stack) < MaxDepth
  /\ \E e \in {Head(Top.pending)} :
       stack' = Append(stack, Frame(e.conditions, GraphPathCreate(e.head),
                                    Top.excludedEdges))
  /\ UNCHANGED <<supergraph, subgraphs, state, edges, pc, result, input, raised, expanded>>

\* The conditions callback: a nested call of validateConditions for the
\* conditions of an edge, from the edge's head, with the edge added to the
\* excluded edges.
CondCallback ==
  /\ pc = "cloop"
  /\ Top.state # Undefined
  /\ Top.pending # <<>>
  /\ Len(stack) < MaxDepth
  /\ \E e \in {Head(Top.pending)} :
       stack' = Append(stack, Frame(e.conditions, GraphPathCreate(e.head),
                                    Top.excludedEdges \cup {e}))
  /\ UNCHANGED <<supergraph, subgraphs, state, edges, pc, result, input, raised, expanded>>

\* The running call returns r and leaves frame f: to the caller of the
\* outermost call, or to the callback of the call below it.
Return(r, f) ==
  IF Len(stack) = 1
  THEN /\ pc' = "done"
       /\ result' = r
       /\ stack' = <<f>>
  ELSE /\ stack' = SubSeq(stack, 1, Len(stack) - 2) \o
                     <<[stack[Len(stack) - 1] EXCEPT
                          !.pending = Tail(@),
                          !.answers = Append(@, [edge |-> Head(stack[Len(stack) - 1].pending),
                                                 result |-> r])]>>
       /\ UNCHANGED <<pc, result>>

\* The path-sets that survive the advance of the popped selection state, the
\* callback's answers known.
NewPaths(f) ==
  LET valid == {f.answers[i].edge :
                  i \in {j \in 1..Len(f.answers) : f.answers[j].result # Null}}
  IN  Concat([i \in 1..Len(f.state.subgraphPaths) |->
                advanceSimultaneousPathsAnswered(
                  subgraphs, f.state.subgraphPaths[i], f.state.selection.element,
                  f.excludedEdges, valid)])

\* Mutant of CondAdvance: a selection without surviving path-set is skipped
\* and the loop goes on.
CondAdvanceSkipsFailure ==
  /\ pc = "cloop"
  /\ Top.state # Undefined
  /\ Top.pending = <<>>
  /\ \E newPaths \in {NewPaths(Top)} :
       /\ stack' = [stack EXCEPT ![Len(stack)] =
                      [Top EXCEPT
                         !.cstack =
                           IF Len(newPaths) = 0 THEN @
                           ELSE @ \o [i \in 1..Len(Top.state.selection.selectionSet) |->
                                        ConditionValidationState(
                                          Top.state.selection.selectionSet[i], newPaths)],
                         !.state = Undefined]]
       /\ UNCHANGED <<pc, result>>
  /\ UNCHANGED <<supergraph, subgraphs, state, edges, input, raised, expanded>>

\* Mutant of CondAdvance: the sub-selections are paired with the path-sets
\* their parent was advanced from.
CondAdvanceFromParentPaths ==
  /\ pc = "cloop"
  /\ Top.state # Undefined
  /\ Top.pending = <<>>
  /\ \E newPaths \in {NewPaths(Top)} :
       IF Len(newPaths) = 0
       THEN Return(Null, [Top EXCEPT !.state = Undefined])
       ELSE /\ stack' = [stack EXCEPT ![Len(stack)] =
                           [Top EXCEPT
                              !.cstack = @ \o
                                [i \in 1..Len(Top.state.selection.selectionSet) |->
                                   ConditionValidationState(
                                     Top.state.selection.selectionSet[i],
                                     Top.state.subgraphPaths)],
                              !.state = Undefined]]
            /\ UNCHANGED <<pc, result>>
  /\ UNCHANGED <<supergraph, subgraphs, state, edges, input, raised, expanded>>

\* validateCurrentSelection ends, the callback's answers known: without a
\* surviving path-set it returns null and validateConditions returns null;
\* otherwise one selection state per sub-selection, paired with the surviving
\* path-sets, is pushed.
CondAdvance ==
  /\ pc = "cloop"
  /\ Top.state # Undefined
  /\ Top.pending = <<>>
  /\ \E newPaths \in {NewPaths(Top)} :
       IF Len(newPaths) = 0
       THEN Return(Null, [Top EXCEPT !.state = Undefined])
       ELSE /\ stack' = [stack EXCEPT ![Len(stack)] =
                           [Top EXCEPT
                              !.cstack = @ \o
                                [i \in 1..Len(Top.state.selection.selectionSet) |->
                                   ConditionValidationState(
                                     Top.state.selection.selectionSet[i], newPaths)],
                              !.state = Undefined]]
            /\ UNCHANGED <<pc, result>>
  /\ UNCHANGED <<supergraph, subgraphs, state, edges, input, raised, expanded>>

\* The stack has drained: `return undefined`.
CondReturn ==
  /\ pc = "cloop"
  /\ Top.state = Undefined
  /\ Top.cstack = <<>>
  /\ Return(Undefined, Top)
  /\ UNCHANGED <<supergraph, subgraphs, state, edges, input, raised, expanded>>

NextConditions == CondEnter \/ CondPop \/ CondCallback \/ CondAdvance \/ CondReturn

SpecConditions == InitConditions /\ [][NextConditions]_vars

\* validateConditions is one synchronous computation: it keeps running.
SpecConditionsFair == SpecConditions /\ WF_vars(NextConditions)

\* The stepwise call gives what the function gives.
StepwiseAgrees ==
  /\ pc = "done" =>
       result = validateConditions(subgraphs, input.conditions, input.initialPath,
                                   input.excludedEdges)
  /\ \A d \in 1..Len(stack) : \A i \in 1..Len(stack[d].answers) :
       LET a == stack[d].answers[i]
       IN  a.result = validateConditions(subgraphs, a.edge.conditions,
                                         GraphPathCreate(a.edge.head),
                                         stack[d].excludedEdges \cup {a.edge})

\* The advance of selection state `st` in frame f leaves a path-set, by the
\* function itself.
Survives(f, st) == validateCurrentSelection(subgraphs, st, f.excludedEdges) # Null

\* The selection states of the log of frame f whose advance is over and left
\* a path-set: those that pushed their sub-selections.
Advanced(f) ==
  { k \in 1..Len(f.log) :
      /\ k < Len(f.log) \/ f.state = Undefined
      /\ Survives(f, f.log[k]) }

RECURSIVE SubSelectionsOf(_, _)
\* How many sub-selections the entries K of a log have together.
SubSelectionsOf(log, K) ==
  IF K = {} THEN 0
  ELSE LET k == CHOOSE j \in K : TRUE
       IN  Len(log[k].selection.selectionSet) + SubSelectionsOf(log, K \ {k})

\* C17: validateConditions returns null if and only if a selection it popped
\* is left without path-set when advanced, and it returns right then: every
\* selection popped before survived, and what is still on its stack was never
\* popped (popped and stacked states together are the top-level selections
\* and the sub-selections of the survivors). It returns undefined only with
\* its stack drained and every popped selection a survivor.
C17_NullOnFirstFailure ==
  /\ \A d \in 1..Len(stack) :
       LET f == stack[d]
       IN  /\ \A k \in 1..(Len(f.log) - 1) : Survives(f, f.log[k])
           /\ Len(f.log) + Len(f.cstack) =
                Len(f.conditions) + SubSelectionsOf(f.log, Advanced(f))
  /\ pc = "done" =>
       LET f == stack[1]
       IN  /\ result \in {Null, Undefined}
           /\ (result = Null) <=> (\E k \in 1..Len(f.log) : ~Survives(f, f.log[k]))
           /\ result = Null => ~Survives(f, f.log[Len(f.log)])
           /\ result = Undefined => f.cstack = <<>>

\* null was returned on the second selection popped, with a selection still
\* on the stack.
C17_Witness ==
  /\ pc = "done"
  /\ result = Null
  /\ Len(stack[1].log) = 2
  /\ stack[1].cstack # <<>>

RECURSIVE Occurrences(_, _)
\* How often selection s occurs in the selection tree `selections`.
Occurrences(selections, s) ==
  IF selections = <<>> THEN 0
  ELSE (IF Head(selections) = s THEN 1 ELSE 0)
       + Occurrences(Head(selections).selectionSet, s)
       + Occurrences(Tail(selections), s)

RECURSIVE SelectionsOf(_)
\* The selections of a selection tree, top-level and nested.
SelectionsOf(selections) ==
  IF selections = <<>> THEN {}
  ELSE {Head(selections)} \cup SelectionsOf(Head(selections).selectionSet)
       \cup SelectionsOf(Tail(selections))

\* The path-sets that survive the advance of `st` in frame f, by the function
\* itself.
SurvivingPaths(f, st) ==
  Concat([i \in 1..Len(st.subgraphPaths) |->
            advanceSimultaneousPathsWithOperation(
              subgraphs, st.subgraphPaths[i], st.selection.element, f.excludedEdges)])

\* Where the k-th popped selection state of frame f comes from: a top-level
\* selection starts from [[initialPath]], a sub-selection from the path-sets
\* that survived a selection popped before it, of which it is a sub-selection.
Origin(f, k) ==
  LET st == f.log[k]
  IN  IF st.selection \in Range(f.conditions)
      THEN st.subgraphPaths = << <<f.initialPath>> >>
      ELSE /\ st.subgraphPaths # << <<f.initialPath>> >>
           /\ \E j \in 1..(k - 1) :
                /\ st.selection \in Range(f.log[j].selection.selectionSet)
                /\ st.subgraphPaths = SurvivingPaths(f, f.log[j])

\* The advance of a selection without sub-selections pushes nothing.
LeafPushesNothing ==
  (/\ pc = "cloop" /\ pc' = "cloop"
   /\ Len(stack') = Len(stack)
   /\ Top.state # Undefined
   /\ Top.pending = <<>>
   /\ Top.state.selection.selectionSet = <<>>) =>
    stack'[Len(stack)].cstack = Top.cstack

\* C18: when validateConditions succeeds every selection of the condition's
\* selection tree, top-level or nested, was advanced exactly once; each
\* top-level selection starts from [[initialPath]] and each sub-selection from
\* the path-sets that survived its parent, not from the initial one; a
\* selection without sub-selections pushes nothing.
C18_Coverage ==
  /\ [](\A d \in 1..Len(stack) : \A k \in 1..Len(stack[d].log) : Origin(stack[d], k))
  /\ []((pc = "done" /\ result = Undefined) =>
          LET f == stack[1]
          IN  /\ \A k \in 1..Len(f.log) : f.log[k].selection \in SelectionsOf(f.conditions)
              /\ \A s \in SelectionsOf(f.conditions) :
                   Cardinality({k \in 1..Len(f.log) : f.log[k].selection = s}) =
                     Occurrences(f.conditions, s))
  /\ [][LeafPushesNothing]_vars

\* A condition of three selections validated, its sub-selection advanced
\* from the two path-sets that survived its parent.
C18_Witness ==
  /\ pc = "done"
  /\ result = Undefined
  /\ Len(stack[1].log) = 3
  /\ \E k \in 1..3 : Len(stack[1].log[k].subgraphPaths) = 2

\* C19: validateConditions returns, also on edges whose conditions lead back
\* to the same edges: every nested call excludes one edge more than its
\* caller, so the calls nest no deeper than there are edges with conditions,
\* and every call's loop drains its stack.
C19_ConditionsTerminate ==
  /\ <>(pc = "done")
  /\ [](\A d \in 1..(Len(stack) - 1) :
          /\ stack[d].excludedEdges \subseteq stack[d + 1].excludedEdges
          /\ stack[d].excludedEdges # stack[d + 1].excludedEdges)
  /\ [](Len(stack) <=
          Cardinality({e \in Range(subgraphs.edges) : hasConditions(e)}) + 1)
  /\ []((pc = "cloop" /\ Top.state # Undefined /\ Top.pending # <<>>) =>
          Len(stack) < MaxDepth)

\* The conditions of b are validated inside those of c inside those of b.
C19_Witness ==
  /\ Len(stack) = 3
  /\ stack[3].excludedEdges = {PoolConditions[5], PoolConditions[6]}

-----------------------------------------------------------------------------
(* What validateTransition leaves alone                                    *)

\* A step of handleState's loop leaves the state it iterates as it was and
\* changes the stack by at most the push of the new state; a step that ends
\* with an error or an assertion leaves the stack alone.
TransitionFrame ==
  (pc = "handle" /\ edges # <<>>) =>
    LET newState == validateTransition(subgraphs, state, Head(edges))
    IN  /\ state' = state
        /\ IF newState # AssertionFailure /\ newState.kind = "ValidationState"
           THEN stack' \in {stack, Append(stack, newState)}
           ELSE stack' = stack

\* The stack changes in the constructor, in validate's pop and in handleState
\* only.
StackWriters == (stack' # stack) => pc \in {"start", "loop", "handle"}

\* C20: validateTransition, whether it returns a state or raises, leaves the
\* state it is called on and the traversal's stack unchanged; only handleState
\* pushes, so every successor on the stack was computed from a state as it
\* was when popped.
C20_Frame ==
  /\ [][TransitionFrame /\ StackWriters]_vars
  /\ [](\A i \in 1..Len(stack) :
          size(stack[i].supergraphPath) > 0 =>
            \E parent \in expanded :
              stack[i] = validateTransition(
                           subgraphs, parent,
                           stack[i].supergraphPath.steps[size(stack[i].supergraphPath)].edge))

\* A state reached by one edge or more is handled: one of its edges was
\* taken, another is still to take.
C20_Witness ==
  /\ pc = "handle"
  /\ size(state.supergraphPath) >= 1
  /\ Len(edges) >= 1
  /\ Len(edges) < Len(nextEdges(supergraph, state.supergraphPath))

-----------------------------------------------------------------------------
(* The errors of the two entry points                                      *)

\* Either entry point is called: validateGraphComposition on a graph pair, or
\* computeSubgraphPaths on a merged path and a services graph.
InitEntryPoints == Init \/ InitPaths

NextEntryPoints ==
  \/ Construct \/ Pop \/ HandleEdge \/ HandleStateReturn \/ ValidateReturn
  \/ ComputeStart \/ ReduceStep \/ ComputeReturn

SpecEntryPoints == InitEntryPoints /\ [][NextEntryPoints]_vars

\* An error with an unsatisfiable path of one edge or more and a witness
\* operation whose selection set is there and selects something.
HasWitness(err) ==
  /\ err.kind = "ValidationError"
  /\ size(err.supergraphUnsatisfiablePath) >= 1
  /\ err.witness # AssertionFailure
  /\ err.witness.selectionSet # Undefined
  /\ err.witness.selectionSet.kind = "SelectionSet"
  /\ Len(err.witness.selectionSet.selections) >= 1

\* C21: every ValidationError of validateGraphComposition and of
\* computeSubgraphPaths has an unsatisfiable path of at least one edge and a
\* witness with a selection set, whatever the last edge of the path is (a
\* DownCast, a field of a leaf type); the size assertion of
\* buildWitnessOperation fails for no transition the entry points try.
C21_ErrorHasWitness ==
  /\ \A i \in 1..Len(raised) : HasWitness(raised[i])
  /\ (pc = "done" /\ result.kind = "returned" /\ result.error # Undefined) =>
       HasWitness(result.error)
  /\ (pc \in {"handle", "reduce"} /\ edges # <<>> /\ ~hasConditions(Head(edges))) =>
       validateTransition(subgraphs, state, Head(edges)) # AssertionFailure

\* computeSubgraphPaths returned an error for a path whose last edge is a
\* DownCast.
C21_Witness ==
  /\ pc = "done"
  /\ input # Undefined
  /\ result.kind = "returned"
  /\ result.error # Undefined
  /\ LET path == result.error.supergraphUnsatisfiablePath
     IN  /\ size(path) >= 2
         /\ path.steps[size(path)].edge.transition.kind = "DownCast"

====
